---- MODULE Spec2Model ----
(***************************************************************************)
(* Model of coroutines.cpp: the three coroutine variants p1 (handle with   *)
(* a promise that swallows failures), p2 (eager counter with co_yield and  *)
(* co_return) and p3 (the Generator<T> template), each driven either by    *)
(* its main() or by a driver that calls the handle's operations in any     *)
(* order.                                                                  *)
(*                                                                         *)
(* A coroutine frame is the record h:                                      *)
(*   st          "none" | "init" | "yield" | "done" | "destroyed"          *)
(*               (not created, suspended at initial_suspend, suspended at  *)
(*               co_yield / co_await, suspended at final_suspend, freed)   *)
(*   i           the loop variable of counter()                            *)
(*   value_      promise value_, <<>> while it is still indeterminate      *)
(*   ret_        promise ret_ (p2), "" after default construction          *)
(*   exception_  promise exception_ (p3), TRUE when it holds an exception  *)
(* The body is counter() generalised by the inputs max, bodyThrows and     *)
(* throwAt: it yields 0, 1, ... and, when bodyThrows, raises a failure     *)
(* where iteration throwAt would start.                                    *)
(***************************************************************************)
EXTENDS Integers, Sequences, FiniteSets, TLC

\* largest max passed to counter(max), and largest throwAt
MaxN == 3
\* number of operations the free driver performs on one handle
MaxOps == 6
\* p1::main resumes the handle this many times
MainResumes == 3
\* number of copies the free driver makes of one Generator
MaxCopies == 1

VARIABLES prog, driver, max, bodyThrows, throwAt,
          h, full_, genAlive,
          pc, n, out, got, retRead,
          lastOp, res, nops, resumes, resumedDone, bodyFailed, throws,
          boolRun, destroys, copies, copied, valRead

vars == <<prog, driver, max, bodyThrows, throwAt, h, full_, genAlive,
          pc, n, out, got, retRead, lastOp, res, nops, resumes,
          resumedDone, bodyFailed, throws, boolRun, destroys, copies,
          copied, valRead>>

inputs == <<prog, driver, max, bodyThrows, throwAt>>

Progs == {"p1", "p2", "p3"}
Drivers == {"main", "free"}

\* the promise right after construction
Promise0 ==
  [st |-> "none", i |-> 0, value_ |-> <<>>, ret_ |-> "", exception_ |-> FALSE]

----------------------------------------------------------------------------
\* the promise types

initial_suspend_never(p) == "never"

initial_suspend_always(p) == "always"

initial_suspend(p) == IF p = "p2" THEN "never" ELSE "always"

final_suspend(p) == "always"

unhandled_exception_swallow(p, f) == f

unhandled_exception(p, f) ==
  IF p = "p3" THEN [f EXCEPT !.exception_ = TRUE] ELSE f

yield_value_drop(p, f, v) == f

\* p2: value_ = i; p3: value_ = std::forward<From>(from)
yield_value(p, f, v) == [f EXCEPT !.value_ = <<v>>]

return_value_drop(p, f) == f

\* p2: ret_ = value; p1, p3: return_void
return_value(p, f) ==
  IF p = "p2" THEN [f EXCEPT !.ret_ = "maximum value reached"] ELSE f

done(f) == f.st = "done"

\* the frame reaches co_await final_suspend()
AtFinal(p, f) ==
  [f EXCEPT !.st = IF final_suspend(p) = "always" THEN "done" ELSE "destroyed"]

----------------------------------------------------------------------------
\* the coroutine bodies

LoopCond_bounded(p, k) == k < max

\* the loop condition of counter at i = k (p1 loops forever)
LoopCond(p, k) == p = "p1" \/ k < max

\* the body raises a failure where iteration k would start
Raises(k) == bodyThrows /\ k = throwAt

\* the frame after the body has run from the loop head with i = k up to
\* its next suspension point
counter(p, f, k) ==
  IF Raises(k)
    THEN AtFinal(p, unhandled_exception(p, [f EXCEPT !.i = k]))
    ELSE IF LoopCond(p, k)
      THEN [(IF p = "p1" THEN f ELSE yield_value(p, f, k))
              EXCEPT !.st = "yield", !.i = k]
      ELSE AtFinal(p, return_value(p, [f EXCEPT !.i = k]))

\* what the body prints on that run
counterOut(p, k) ==
  IF Raises(k)
    THEN <<>>
    ELSE IF LoopCond(p, k)
      THEN << <<(IF p = "p1" THEN "coroutine" ELSE "generated"), k>> >>
      ELSE IF p = "p2" THEN << <<"ending", k>> >> ELSE <<>>

\* the call counter(...): the frame is allocated, the promise constructed,
\* and co_await initial_suspend() decides whether the body starts
Coroutine(p) ==
  LET f0 == [Promise0 EXCEPT !.st = "init"]
  IN IF initial_suspend(p) = "always" THEN f0 ELSE counter(p, f0, 0)

CoroutineOut(p) ==
  IF initial_suspend(p) = "always" THEN <<>> ELSE counterOut(p, 0)

resume_restart(p, f) ==
  {[h |-> counter(p, f, IF f.st = "yield" THEN f.i + 1 ELSE 0),
    ev |-> counterOut(p, IF f.st = "yield" THEN f.i + 1 ELSE 0),
    crash |-> FALSE]}

\* std::coroutine_handle::operator(): the outcomes of resuming frame f.
\* Resuming a frame that is suspended at its final suspend point (or that
\* is gone) is undefined: the call either returns having done nothing or
\* the program dies.
resume(p, f) ==
  CASE f.st = "init" ->
         {[h |-> counter(p, f, 0), ev |-> counterOut(p, 0), crash |-> FALSE]}
    [] f.st = "yield" ->
         {[h |-> counter(p, f, f.i + 1), ev |-> counterOut(p, f.i + 1),
           crash |-> FALSE]}
    [] OTHER ->
         {[h |-> f, ev |-> <<>>, crash |-> c] : c \in BOOLEAN}

\* std::coroutine_handle::destroy()
destroy(f) == [f EXCEPT !.st = "destroyed"]

\* a read of promise value_: any value while it is indeterminate
ReadValue(f) == IF f.value_ = <<>> THEN 0..MaxN ELSE {f.value_[1]}

----------------------------------------------------------------------------
\* p3::Generator

fill_resumes_always(full) == TRUE

\* the test if (!full_) of fill()
fill_resumes(full) == ~full

fill_rethrows_never(f) == FALSE

\* the test if (h_.promise().exception_) of fill()
fill_rethrows(f) == f.exception_

\* the outcomes of fill() on frame f with full_ = full
fill(p, f, full) ==
  IF ~fill_resumes(full)
    THEN {[h |-> f, full_ |-> full, ev |-> <<>>, result |-> "ok",
           resumed |-> 0]}
    ELSE {[h |-> o.h,
           full_ |-> (IF o.crash \/ fill_rethrows(o.h) THEN full ELSE TRUE),
           ev |-> o.ev,
           result |-> (IF o.crash THEN "crash"
                       ELSE IF fill_rethrows(o.h) THEN "threw" ELSE "ok"),
           resumed |-> 1] : o \in resume(p, f)}

consume_keep(full) == full

\* the assignment full_ = false of operator()
consume(full) == FALSE

dtor_leak_on_fault(f) == IF f.exception_ THEN f ELSE destroy(f)

\* ~Generator()
Generator_dtor(f) == destroy(f)

----------------------------------------------------------------------------
\* bookkeeping shared by the actions

\* the frame was resumed k times from state f, reaching f2
Account(f, f2, k) ==
  /\ resumes' = resumes + k
  /\ resumedDone' = resumedDone + (IF k > 0 /\ done(f) THEN k ELSE 0)
  /\ bodyFailed' = (bodyFailed \/ (k > 0 /\ f.st \in {"init", "yield"}
                                   /\ Raises(IF f.st = "init" THEN 0 ELSE f.i + 1)))

Init ==
  /\ prog \in Progs
  /\ driver \in Drivers
  /\ max \in (IF prog = "p1" THEN {0} ELSE 0..MaxN)
  /\ bodyThrows \in BOOLEAN
  /\ throwAt \in (IF ~bodyThrows THEN {0}
                  ELSE IF prog = "p1" THEN 0..MaxN ELSE 0..max)
  /\ h = Promise0
  /\ full_ = FALSE
  /\ genAlive = FALSE
  /\ pc = "start"
  /\ n = 0
  /\ out = <<>>
  /\ got = <<>>
  /\ retRead = <<>>
  /\ lastOp = "none"
  /\ res = "none"
  /\ nops = 0
  /\ resumes = 0
  /\ resumedDone = 0
  /\ bodyFailed = FALSE
  /\ throws = 0
  /\ boolRun = 0
  /\ destroys = 0
  /\ copies = 0
  /\ copied = 0
  /\ valRead = <<>>

\* auto h = counter(...) / auto gen = counter(...)
Create ==
  /\ pc = "start"
  /\ h' = Coroutine(prog)
  /\ out' = out \o CoroutineOut(prog)
  /\ bodyFailed' = (initial_suspend(prog) = "never" /\ Raises(0))
  /\ genAlive' = (prog = "p3")
  /\ pc' = IF driver = "free" THEN "free"
           ELSE IF prog = "p3" THEN "cond" ELSE "loop"
  /\ lastOp' = "create"
  /\ UNCHANGED <<inputs, full_, n, got, retRead, res, nops, resumes,
                 resumedDone, throws, boolRun, destroys, copies, copied,
                 valRead>>

\* h() on the raw handle: one iteration of the loop of p1::main or
\* p2::main, or a call by the free driver
Resume ==
  /\ prog \in {"p1", "p2"}
  /\ \/ driver = "main" /\ pc = "loop" /\ prog = "p1" /\ n < MainResumes
     \/ driver = "main" /\ pc = "loop" /\ prog = "p2" /\ ~done(h)
     \/ driver = "free" /\ pc = "free" /\ nops < MaxOps
  /\ \E o \in resume(prog, h) :
     \E v \in ReadValue(h) :
       /\ h' = o.h
       /\ out' = (IF driver = "main" /\ prog = "p1"
                    THEN Append(out, <<"main", n>>) ELSE out) \o o.ev
       /\ got' = IF driver = "main" /\ prog = "p2" THEN Append(got, v) ELSE got
       /\ pc' = IF o.crash THEN "crashed" ELSE pc
       /\ res' = IF o.crash THEN "crash" ELSE "ok"
       /\ Account(h, o.h, 1)
  /\ n' = IF driver = "main" /\ prog = "p1" THEN n + 1 ELSE n
  /\ nops' = nops + 1
  /\ lastOp' = "resume"
  /\ UNCHANGED <<inputs, full_, genAlive, retRead, throws, boolRun, destroys,
                 copies, copied, valRead>>

\* h.destroy() on the raw handle, in p2::main after reading ret_
Destroy ==
  /\ prog \in {"p1", "p2"}
  /\ \/ driver = "main" /\ pc = "loop" /\ prog = "p1" /\ n = MainResumes
     \/ driver = "main" /\ pc = "loop" /\ prog = "p2" /\ done(h)
     \/ driver = "free" /\ pc = "free"
  /\ retRead' = IF driver = "main" /\ prog = "p2" THEN <<h.ret_>> ELSE retRead
  /\ h' = destroy(h)
  /\ destroys' = destroys + 1
  /\ pc' = "end"
  /\ lastOp' = "destroy"
  /\ res' = "ok"
  /\ nops' = nops + 1
  /\ UNCHANGED <<inputs, full_, genAlive, n, out, got, resumes, resumedDone,
                 bodyFailed, throws, boolRun, copies, copied, valRead>>

\* Generator::operator bool: the condition of while (gen), or a call by
\* the free driver
operator_bool ==
  /\ prog = "p3"
  /\ genAlive
  /\ \/ driver = "main" /\ pc = "cond"
     \/ driver = "free" /\ pc = "free" /\ nops < MaxOps
  /\ \E o \in fill(prog, h, full_) :
       /\ h' = o.h
       /\ full_' = o.full_
       /\ out' = out \o o.ev
       /\ res' = IF o.result = "ok"
                   THEN (IF done(o.h) THEN "false" ELSE "true")
                   ELSE o.result
       /\ pc' = IF o.result = "crash" THEN "crashed"
                ELSE IF driver = "free" THEN pc
                ELSE IF o.result = "threw" THEN "unwind"
                ELSE IF done(o.h) THEN "exit" ELSE "body"
       /\ throws' = throws + (IF o.result = "threw" THEN 1 ELSE 0)
       /\ boolRun' = boolRun + o.resumed
       /\ Account(h, o.h, o.resumed)
  /\ nops' = nops + 1
  /\ lastOp' = "bool"
  /\ UNCHANGED <<inputs, genAlive, n, got, retRead, destroys, copies, copied,
                 valRead>>

\* Generator::operator(): the body of while (gen), or a call by the free
\* driver
operator_call ==
  /\ prog = "p3"
  /\ genAlive
  /\ \/ driver = "main" /\ pc = "body"
     \/ driver = "free" /\ pc = "free" /\ nops < MaxOps
  /\ \E o \in fill(prog, h, full_) :
     \E v \in ReadValue(o.h) :
       /\ h' = o.h
       /\ full_' = IF o.result = "ok" THEN consume(o.full_) ELSE o.full_
       /\ out' = out \o o.ev
       /\ got' = IF o.result = "ok" THEN Append(got, v) ELSE got
       /\ res' = IF o.result = "ok" THEN "value" ELSE o.result
       /\ pc' = IF o.result = "crash" THEN "crashed"
                ELSE IF driver = "free" THEN pc
                ELSE IF o.result = "threw" THEN "unwind" ELSE "cond"
       /\ throws' = throws + (IF o.result = "threw" THEN 1 ELSE 0)
       /\ Account(h, o.h, o.resumed)
  /\ boolRun' = 0
  /\ nops' = nops + 1
  /\ lastOp' = "call"
  /\ UNCHANGED <<inputs, genAlive, n, retRead, destroys, copies, copied,
                 valRead>>

\* h_.destroy() on a frame that is already destroyed is undefined: the
\* call either returns or the program dies
DestroyCrashes(f) == IF f.st = "destroyed" THEN BOOLEAN ELSE {FALSE}

\* ~Generator(): gen goes out of scope at the end of p3::main, while a
\* failure propagates out of it, or whenever the free driver leaves
dtor ==
  /\ prog = "p3"
  /\ genAlive
  /\ \/ driver = "main" /\ pc \in {"exit", "unwind"}
     \/ driver = "free" /\ pc = "free"
  /\ h' = Generator_dtor(h)
  /\ destroys' = destroys + (IF Generator_dtor(h).st = "destroyed" THEN 1 ELSE 0)
  /\ genAlive' = FALSE
  /\ \E c \in DestroyCrashes(h) :
       /\ pc' = IF c THEN "crashed" ELSE "end"
       /\ res' = IF c THEN "crash" ELSE "ok"
  /\ lastOp' = "dtor"
  /\ nops' = nops + 1
  /\ UNCHANGED <<inputs, full_, n, out, got, retRead, resumes, resumedDone,
                 bodyFailed, throws, boolRun, copies, copied, valRead>>

\* the implicit copy constructor of Generator: the free driver copies gen
\* (for instance by passing it by value); the copy holds the same h_
copy ==
  /\ prog = "p3"
  /\ genAlive
  /\ driver = "free" /\ pc = "free" /\ nops < MaxOps
  /\ copied < MaxCopies
  /\ copies' = copies + 1
  /\ copied' = copied + 1
  /\ lastOp' = "copy"
  /\ nops' = nops + 1
  /\ UNCHANGED <<inputs, h, full_, genAlive, pc, n, out, got, retRead, res,
                 resumes, resumedDone, bodyFailed, throws, boolRun, destroys,
                 valRead>>

\* ~Generator() of a copy, before or after the original is destroyed
copy_dtor ==
  /\ prog = "p3"
  /\ driver = "free" /\ pc \in {"free", "end"}
  /\ copies > 0
  /\ h' = Generator_dtor(h)
  /\ destroys' = destroys + (IF Generator_dtor(h).st = "destroyed" THEN 1 ELSE 0)
  /\ copies' = copies - 1
  /\ \E c \in DestroyCrashes(h) :
       /\ pc' = IF c THEN "crashed" ELSE pc
       /\ res' = IF c THEN "crash" ELSE "ok"
  /\ lastOp' = "copy_dtor"
  /\ nops' = nops + 1
  /\ UNCHANGED <<inputs, full_, genAlive, n, out, got, retRead, resumes,
                 resumedDone, bodyFailed, throws, boolRun, copied, valRead>>

\* a read of value_ and ret_ through h.promise() by the free driver of p2
\* (p2::main reads them at lines 212 and 218)
Read ==
  /\ prog = "p2"
  /\ driver = "free" /\ pc = "free" /\ nops < MaxOps
  /\ \E v \in ReadValue(h) : valRead' = <<v>>
  /\ retRead' = <<h.ret_>>
  /\ lastOp' = "read"
  /\ res' = "ok"
  /\ nops' = nops + 1
  /\ UNCHANGED <<inputs, h, full_, genAlive, pc, n, out, got, resumes,
                 resumedDone, bodyFailed, throws, boolRun, destroys, copies,
                 copied>>

Next ==
  \/ Create
  \/ Resume
  \/ Destroy
  \/ operator_bool
  \/ operator_call
  \/ dtor
  \/ copy
  \/ copy_dtor
  \/ Read

Spec == Init /\ [][Next]_vars

----------------------------------------------------------------------------
\* helpers of the properties

\* <<0, 1, ..., k-1>>
Iota(k) == [j \in 1..k |-> j - 1]

Last(s) == s[Len(s)]

Created == pc # "start"

\* the output of k iterations of the loop of p1::main
P1Trace(k) ==
  [j \in 1..(2 * k) |-> IF j % 2 = 1 THEN <<"main", (j - 1) \div 2>>
                                     ELSE <<"coroutine", (j - 2) \div 2>>]

\* this step is a call of the driver on the handle
DriverCall(op) == lastOp' = op /\ nops' = nops + 1

----------------------------------------------------------------------------
\* C1: driving p3::counter(N) with while (gen) gen(), for a body that does
\* not fail, the values returned by operator() are 0..N-1 in order, and
\* operator bool has returned false (the loop is left) only when all N
\* values were consumed and the frame was resumed N+1 times.
C1_PullLoopYieldsAllInOrder ==
  (prog = "p3" /\ driver = "main" /\ ~bodyThrows) =>
    /\ Len(got) <= max
    /\ got = Iota(Len(got))
    /\ pc \notin {"unwind", "crashed"}
    /\ (pc = "body" => resumes = Len(got) + 1 /\ h.value_ = <<Len(got)>>)
    /\ (pc \in {"exit", "end"} => got = Iota(max) /\ resumes = max + 1)
    /\ (res = "false" => Len(got) = max /\ resumes = max + 1)

C1_Witness ==
  /\ prog = "p3" /\ driver = "main" /\ ~bodyThrows
  /\ max = 3 /\ pc = "exit" /\ res = "false"
  /\ got = <<0, 1, 2>> /\ resumes = 4

\* C2: in p3::Generator, a run of consecutive operator bool calls with no
\* operator() call in between resumes the coroutine at most once.
C2_BoolRunResumesAtMostOnce ==
  prog = "p3" => boolRun <= 1

\* C3 as stated: of two consecutive operator() calls the second does not
\* resume the coroutine and returns the value the first returned (stated
\* for the case in which the body is at a co_yield after either call, so
\* that both calls return a yielded value).
C3_SecondCallIdempotent ==
  [][(prog = "p3" /\ lastOp = "call" /\ res = "value" /\ DriverCall("call")
      /\ res' = "value" /\ h.st = "yield" /\ h'.st = "yield")
       => (resumes' = resumes /\ Last(got') = Last(got))]_vars

\* C3 amended: of two consecutive operator() calls the second resumes the
\* coroutine exactly once, and when both calls left the body at a co_yield
\* the second returns the next value in yield order (no value is skipped).
C3_SecondCallAdvancesByOne ==
  [][(prog = "p3" /\ lastOp = "call" /\ res = "value" /\ DriverCall("call"))
       => /\ resumes' = resumes + 1
          /\ (h.st = "yield" /\ h'.st = "yield"
                => res' = "value" /\ Last(got') = Last(got) + 1)]_vars

C3_Witness ==
  /\ prog = "p3" /\ driver = "free" /\ lastOp = "call" /\ res = "value"
  /\ nops = 2 /\ got = <<0, 1>> /\ resumes = 2 /\ h.st = "yield"

\* C4: operator() resumes the coroutine exactly once when full_ is false at
\* the call and not at all when full_ is true; when it returns, it returns
\* the value held by promise value_ and full_ is false.
C4_CallResumesIffStale ==
  [][(prog = "p3" /\ DriverCall("call"))
       => /\ resumes' = resumes + (IF full_ THEN 0 ELSE 1)
          /\ (res' = "value"
                => /\ full_' = FALSE
                   /\ Len(got') = Len(got) + 1
                   /\ Last(got') \in ReadValue(h')
                   /\ (full_ => h' = h))]_vars

C4_Witness ==
  /\ prog = "p3" /\ driver = "free" /\ lastOp = "call" /\ res = "value"
  /\ nops = 3 /\ got = <<0, 1>> /\ resumes = 2 /\ ~full_

\* C5: a coroutine of p1 or p3 (initial_suspend returns suspend_always) has
\* run no statement of its body as long as it was never resumed: it is
\* suspended at its initial suspend point, nothing was printed, value_ was
\* not written.
C5_LazyStartRunsNothing ==
  (prog \in {"p1", "p3"} /\ Created /\ resumes = 0) =>
    /\ h.st \in {"init", "destroyed"}
    /\ h.value_ = <<>>
    /\ h.i = 0
    /\ out = <<>>
    /\ ~bodyFailed

C5_Witness ==
  /\ prog = "p3" /\ driver = "main" /\ pc = "cond" /\ max = 3
  /\ resumes = 0 /\ h.st = "init" /\ out = <<>>

\* C6: when counter(max) of p2 (initial_suspend returns suspend_never) has
\* returned and the handle was not resumed yet, the body is already at its
\* first co_yield with value_ = 0 written, or has already completed; the
\* first value p2::main reads is 0.
C6_EagerStartRunsToFirstYield ==
  (prog = "p2" /\ Created /\ resumes = 0 /\ h.st # "destroyed") =>
    /\ h.st \in {"yield", "done"}
    /\ (h.st = "yield" <=> (max > 0 /\ ~Raises(0)))
    /\ (h.st = "yield" => h.value_ = <<0>> /\ out = << <<"generated", 0>> >>)
    /\ (h.st = "done" /\ ~Raises(0) => out = << <<"ending", 0>> >>)

C6_Witness ==
  /\ prog = "p2" /\ driver = "main" /\ pc = "loop" /\ max = 3
  /\ resumes = 0 /\ h.st = "yield" /\ h.value_ = <<0>>

\* C7: the driver call of p3::Generator whose resumption runs into a failure
\* of the body ends by throwing that failure; it does not return normally.
C7_FailureRaisedByCausingCall ==
  [][(prog = "p3" /\ ~bodyFailed /\ bodyFailed')
       => (res' = "threw" /\ throws' = throws + 1 /\ h'.exception_
           /\ lastOp' \in {"bool", "call"})]_vars

C7_Witness ==
  /\ prog = "p3" /\ bodyFailed /\ res = "threw" /\ throws = 1
  /\ lastOp = "call" /\ got = <<0>> /\ throwAt = 1

\* C8: for a body that yields twice and then fails, the failure reaches the
\* driver when exactly 2 values have been read, and every operator bool
\* call after that returns false.
C8_ExhaustedAfterFailure ==
  [][(prog = "p3" /\ bodyThrows /\ throwAt = 2)
       => /\ (throws = 0 /\ throws' = 1 => got' = <<0, 1>>)
          /\ (throws >= 1 /\ DriverCall("bool") => res' = "false")]_vars

\* C9: no call resumes a frame whose done() is true.
C9_NeverResumesDoneFrame ==
  resumedDone = 0

\* C10: once the Generator of p3 is destroyed its frame is destroyed too
\* (exactly once when the Generator was never copied), whether the driver
\* left after exhaustion, early, or with a failure of the body propagating.
C10_FrameDestroyedWithGenerator ==
  (prog = "p3" /\ Created /\ ~genAlive) =>
    (h.st = "destroyed" /\ (copied = 0 => destroys = 1))

C10_Witness ==
  /\ prog = "p3" /\ driver = "main" /\ pc = "end" /\ ~genAlive
  /\ throws = 1 /\ got = <<0>> /\ h.st = "destroyed"

\* what p2::main observes of counter(3)
P2Observed ==
  /\ Len(got) <= 3
  /\ got = Iota(Len(got))
  /\ (pc = "end" => /\ got = <<0, 1, 2>>
                    /\ retRead = <<"maximum value reached">>
                    /\ resumes = 3
                    /\ destroys = 1
                    /\ h.st = "destroyed")

\* C11 as stated: p2::counter(3) under p2::main is lazy-start (nothing of
\* the body has run when counter(3) returns); the driver reads 0, 1, 2 in
\* order, then the return value "maximum value reached", then destroys the
\* handle once.
C11_LazyScenario ==
  (prog = "p2" /\ driver = "main" /\ max = 3 /\ ~bodyThrows) =>
    /\ (Created /\ resumes = 0 => h.st = "init" /\ out = <<>>)
    /\ P2Observed

\* C11 amended: the same scenario with p2 eager-start: when counter(3)
\* returns the body is already suspended at its first co_yield with
\* value_ = 0; the driver reads 0, 1, 2, then the return value, then
\* destroys the handle once, after 3 resumptions.
C11_EagerScenario ==
  (prog = "p2" /\ driver = "main" /\ max = 3 /\ ~bodyThrows) =>
    /\ (Created /\ resumes = 0 => h.st = "yield" /\ h.value_ = <<0>>)
    /\ (Created => final_suspend(prog) = "always")
    /\ P2Observed

C11_Witness ==
  /\ prog = "p2" /\ driver = "main" /\ max = 3 /\ ~bodyThrows
  /\ pc = "end" /\ got = <<0, 1, 2>> /\ destroys = 1
  /\ retRead = <<"maximum value reached">>

\* what p1::main does to counter()
P1Observed ==
  /\ ~done(h)
  /\ resumes = n
  /\ n <= MainResumes
  /\ (pc = "loop" /\ n > 0 => h.st = "yield" /\ h.i = n - 1)
  /\ (pc = "end" => n = MainResumes /\ destroys = 1 /\ h.st = "destroyed"
                    /\ h.i = MainResumes - 1)

C13_StrictAlternation ==
  (prog = "p1" /\ driver = "main" /\ ~bodyThrows) =>
    /\ n <= MainResumes
    /\ resumes = n
    /\ out = P1Trace(n)
    /\ (pc = "end" => n = MainResumes)

C13_Witness ==
  /\ prog = "p1" /\ driver = "main" /\ ~bodyThrows /\ pc = "end"
  /\ out = << <<"main", 0>>, <<"coroutine", 0>>, <<"main", 1>>,
              <<"coroutine", 1>>, <<"main", 2>>, <<"coroutine", 2>> >>

C15_RetWrittenOnceAtCompletion ==
  /\ [](prog = "p2" =>
          /\ (h.st \in {"none", "init", "yield"} => h.ret_ = "")
          /\ (done(h) /\ ~bodyFailed => h.ret_ = "maximum value reached"))
  /\ [][prog = "p2" =>
          /\ (h'.ret_ # h.ret_ => (~done(h) /\ done(h') /\ h.ret_ = ""))
          /\ (DriverCall("read") => (h' = h /\ retRead' = <<h.ret_>>))]_vars

C15_Witness ==
  /\ prog = "p2" /\ driver = "free" /\ max = 2 /\ ~bodyThrows
  /\ lastOp = "read" /\ done(h) /\ resumedDone = 0
  /\ retRead = <<"maximum value reached">> /\ valRead = <<1>>

\* C16: a failure of the body is raised to the driver of p3::Generator at
\* most once, and once it has been raised exception_ is empty again.
C16_FaultClearedOnPropagation ==
  prog = "p3" => (throws <= 1 /\ (throws >= 1 => ~h.exception_))

\* C17: in p2 and p3 a coroutine whose body failed is never a done
\* coroutine with no fault captured and none raised to the driver.
C17_FailureSurfacedOutsideP1 ==
  (prog \in {"p2", "p3"} /\ bodyFailed /\ done(h)) =>
    (h.exception_ /\ throws >= 1)

\* C18: under p3::main's loop (operator() only right after operator bool
\* returned true, stop at the first false) and a body that does not fail,
\* no call resumes a frame whose done() is true, and the program does not
\* die, for every max in 0..MaxN.
C18_PullLoopNeverResumesDone ==
  (prog = "p3" /\ driver = "main" /\ ~bodyThrows) =>
    /\ resumedDone = 0
    /\ pc # "crashed"
    /\ (done(h) => full_ /\ pc = "exit")
    /\ (h.st = "destroyed" => pc = "end")

C18_Witness ==
  /\ prog = "p3" /\ driver = "main" /\ ~bodyThrows /\ max = 2
  /\ pc = "end" /\ resumes = 3 /\ resumedDone = 0 /\ lastOp = "dtor"

\* C19: the frame of a p3::Generator is destroyed at most once, and no
\* Generator operation other than a copy happens on a destroyed frame.
C19_FrameDestroyedAtMostOnce ==
  /\ [](prog = "p3" => destroys <= 1)
  /\ [][(prog = "p3" /\ h.st = "destroyed" /\ nops' = nops + 1)
          => lastOp' = "copy"]_vars

\* the number of co_yield the body executes
Yields == IF bodyThrows THEN throwAt ELSE max

\* C20: for every sequence of operator bool and operator() calls on a
\* p3::Generator the values returned by operator() are those of distinct
\* co_yields, in order: never more values than yields, none twice, none
\* stale.
C20_EachValueFromDistinctYield ==
  prog = "p3" => (Len(got) <= Yields /\ got = Iota(Len(got)))

====
